---- MODULE Spec2Model ----
(***************************************************************************)
(* Duplicate File Finder (src/duplicate_finder.py): scan_directories,      *)
(* find_duplicates, remove_duplicates and move_duplicates_to_folder over a *)
(* small file system.                                                      *)
(*                                                                         *)
(* A path is a record [dir, name]; a file is a record [content, mtime,     *)
(* perm]; the file system is a function from the existing paths to files,  *)
(* together with the set of existing directories.                          *)
(***************************************************************************)
EXTENDS Naturals, Sequences, FiniteSets, TLC

\* ---------------------------------------------------------------- bounds
\* Most files a file system holds at the start of a run.
MaxFiles == 3
\* Most root directories given to the finder.
MaxRoots == 2
\* Most OS errors other than "no such file" that unlink and move raise in a run.
MaxOSErrors == 1

\* ------------------------------------------------------------ file system
\* The directory tree: B is a subdirectory of A; T is another top-level
\* directory; N does not exist before a run.
RootDirs == {"A", "B"}
InitialDirs == {"A", "B", "T"}
TargetDirs == {"A", "T", "N"}
DirOrder == <<"A", "B", "T", "N">>

Parent(d) == IF d = "B" THEN "A" ELSE d

IsUnder(d, root) == d = root \/ Parent(d) = root

\* The places a file may be at before a run.
ScannedSlots ==
  { [dir |-> "A", name |-> "a.txt"],
    [dir |-> "A", name |-> "dup.txt"],
    [dir |-> "B", name |-> "dup.txt"],
    [dir |-> "B", name |-> "b.txt"] }

\* A file outside every root, and a file the default ignore patterns match.
OutsideSlot == [dir |-> "T", name |-> "dup.txt"]
IgnoredSlot == [dir |-> "A", name |-> ".DS_Store"]

Slots == ScannedSlots \cup {OutsideSlot, IgnoredSlot}

Contents == {"", "hello", "bye"}
Mtimes == {1, 2}

File(c, m, p) == [content |-> c, mtime |-> m, perm |-> p]

\* The files the scan can read. An empty file's modification time is never
\* read, so one value stands for all of them.
ReadableStates ==
  { f \in [content : Contents, mtime : Mtimes, perm : {"ok"}] :
      f.content = "" => f.mtime = 1 }

\* Files whose stat() fails and files that cannot be opened: their content and
\* modification time are never read.
FailingStates == { File("hello", 1, "nostat"), File("hello", 1, "noread") }

\* The content and the modification time of a file that is never scanned are
\* never read either.
FileStatesAt(p, states) ==
  IF p \in ScannedSlots THEN states ELSE { File("hello", 1, "ok") }

SlotSets(slots) == { X \in SUBSET slots : Cardinality(X) <= MaxFiles }

FileSystemsOver(slots, states) ==
  UNION { { f \in [S -> states \cup { File("hello", 1, "ok") }] :
              \A p \in S : f[p] \in FileStatesAt(p, states) } :
          S \in SlotSets(slots) }

RECURSIVE SeqsUpTo(_, _)
SeqsUpTo(S, n) ==
  IF n = 0 THEN {<<>>}
  ELSE LET shorter == SeqsUpTo(S, n - 1)
       IN  shorter \cup { Append(s, x) : s \in shorter, x \in S }

\* The lists of roots of the scan runs, and those of the full runs: one root,
\* the same root twice, a root and a directory nested in it.
ScanRootLists == SeqsUpTo(RootDirs, MaxRoots) \ {<<>>}
RootLists == { <<"A">>, <<"B", "B">>, <<"B", "A">> }

Responses == {"y", "Y", "n", "q"}

VARIABLES
  fs,           \* the files: path -> [content, mtime, perm]
  dirs,         \* the existing directories
  fs0,          \* the files when the run started
  directories,  \* self.directories
  ignore_patterns, \* self.ignore_patterns
  file_hashes,  \* self.file_hashes, in insertion order: <<[hash, files]>>
  duplicates,   \* self.duplicates, in insertion order: <<[hash, files]>>
  pc,           \* where main() is
  interactive,  \* argument of remove_duplicates
  dry_run,      \* argument of remove_duplicates / move_duplicates_to_folder
  target,       \* argument of move_duplicates_to_folder
  k,            \* position in the candidates of the running loop
  removed_count,
  space_freed,
  moved_count,
  events,       \* what each loop iteration did (prompts and printed lines)
  report,       \* the final line printed
  hfile,        \* file_hasher.py: the file at filepath
  chunk_size,   \* self.chunk_size
  algorithms,   \* the algorithms asked for
  hout,         \* what the last call of the FileHasher did and returned
  disk,         \* the files the manifest may name: path -> file
  manifest,     \* the content of the hash file given to verify_hashes
  default_algorithm, \* the algorithm argument of verify_hashes
  vout,         \* what verify_hashes did and returned
  tree,         \* empty_folder_cleaner.py: the directories that exist
  tree0,        \* the directories when delete_empty_dirs was called
  with_files,   \* the directories that hold a file themselves
  walk,         \* the triples os.walk has still to yield
  deleted_count,
  rmdir_errors, \* how many os.rmdir calls raised OSError
  cleaner       \* where delete_empty_dirs is, and the line it prints last

finder_vars ==
  <<fs, dirs, fs0, directories, ignore_patterns, file_hashes, duplicates,
    pc, interactive, dry_run, target, k, removed_count, space_freed,
    moved_count, events, report>>

verify_vars == <<disk, manifest, default_algorithm, vout>>

file_hasher_vars == <<hfile, chunk_size, algorithms, hout, verify_vars>>

cleaner_vars ==
  <<tree, tree0, with_files, walk, deleted_count, rmdir_errors, cleaner>>

vars == <<finder_vars, file_hasher_vars, cleaner_vars>>

\* No delete_empty_dirs is called.
CleanerUnused ==
  /\ tree = {}
  /\ tree0 = {}
  /\ with_files = {}
  /\ walk = <<>>
  /\ deleted_count = 0
  /\ rmdir_errors = 0
  /\ cleaner = [at |-> "none"]

\* No verify_hashes is called.
VerifyUnused ==
  /\ disk = <<>>
  /\ manifest = <<>>
  /\ default_algorithm = "sha256"
  /\ vout = [op |-> "none"]

\* No FileHasher is in use.
FileHasherUnused ==
  /\ hfile = [kind |-> "absent"]
  /\ chunk_size = 1
  /\ algorithms = <<>>
  /\ hout = [op |-> "none"]
  /\ VerifyUnused

\* ------------------------------------------------------------ pure helpers
Range(s) == { s[i] : i \in DOMAIN s }

\* hashlib.md5 of the whole content, in hexadecimal (first digits).
MD5(content) ==
  CASE content = "" -> "d41d8cd9"
    [] content = "hello" -> "5d41402a"
    [] content = "bye" -> "bfa99df3"

Size(content) == Len(content)

LowerChar(c) ==
  CASE c = "A" -> "a" [] c = "B" -> "b" [] c = "C" -> "c" [] c = "D" -> "d"
    [] c = "E" -> "e" [] c = "F" -> "f" [] c = "Q" -> "q" [] c = "Y" -> "y"
    [] OTHER -> c

\* str.lower()
RECURSIVE Lower(_)
Lower(r) ==
  IF r = "" THEN "" ELSE LowerChar(SubSeq(r, 1, 1)) \o Lower(SubSeq(r, 2, Len(r)))

\* "pattern in filename"
Contains(s, pat) ==
  \E i \in 1..(Len(s) + 1) :
    i + Len(pat) - 1 <= Len(s) /\ SubSeq(s, i, i + Len(pat) - 1) = pat

StartsWith(s, pat) == Len(pat) <= Len(s) /\ SubSeq(s, 1, Len(pat)) = pat

\* pathlib: name.rfind("."), when that dot is neither first nor last; else 0.
DotIndex(name) ==
  LET dots == { i \in 1..Len(name) : SubSeq(name, i, i) = "." }
      last == IF dots = {} THEN 0 ELSE CHOOSE i \in dots : \A j \in dots : j <= i
  IN  IF 1 < last /\ last < Len(name) THEN last ELSE 0

Suffix(name) ==
  IF DotIndex(name) = 0 THEN "" ELSE SubSeq(name, DotIndex(name), Len(name))

Stem(name) ==
  IF DotIndex(name) = 0 THEN name ELSE SubSeq(name, 1, DotIndex(name) - 1)

should_ignore_file(filepath, patterns) ==
  \E i \in DOMAIN patterns :
    Contains(filepath.name, patterns[i]) \/ StartsWith(filepath.name, patterns[i])

\* The order in which a directory lists its files: some fixed order.
SeqOfSet(S) ==
  CHOOSE f \in [1..Cardinality(S) -> S] : { f[i] : i \in DOMAIN f } = S

Listing(files, d) == SeqOfSet({ p \in DOMAIN files : p.dir = d })

RECURSIVE Concat(_)
Concat(ss) == IF ss = <<>> THEN <<>> ELSE Head(ss) \o Concat(Tail(ss))

\* os.walk(directory): top-down, the files of each directory under the root.
Walk(files, ds, root) ==
  LET under == SelectSeq(DirOrder, LAMBDA d : d \in ds /\ IsUnder(d, root))
  IN  Concat([i \in DOMAIN under |-> Listing(files, under[i])])

\* -------------------------------------------------------- scan_directories
\* file_info = (filepath, file_size, st_mtime)
FileInfo(files, p) ==
  [path |-> p, size |-> Size(files[p].content), mtime |-> files[p].mtime]

\* self.file_hashes[file_hash].append(file_info) on a defaultdict(list)
AppendRecord(fh, h, info) ==
  IF \E i \in DOMAIN fh : fh[i].hash = h
  THEN [i \in DOMAIN fh |->
          IF fh[i].hash = h
          THEN [hash |-> h, files |-> Append(fh[i].files, info)]
          ELSE fh[i]]
  ELSE Append(fh, [hash |-> h, files |-> <<info>>])

\* calculate_file_hash: None when the file cannot be opened or read.
calculate_file_hash(files, p) ==
  IF files[p].perm = "noread" THEN "None" ELSE MD5(files[p].content)

\* The body of "for filename in files" for one file.
ScanFile(fh, files, patterns, p) ==
  IF should_ignore_file(p, patterns) THEN fh
  ELSE IF files[p].perm = "nostat" THEN fh
  ELSE IF Size(files[p].content) = 0 THEN fh
  ELSE IF calculate_file_hash(files, p) = "None" THEN fh
  ELSE AppendRecord(fh, calculate_file_hash(files, p), FileInfo(files, p))

\* A variant in which a file that fails ends the walk of its root.
RECURSIVE ScanFiles_StopsAtError(_, _, _, _)
ScanFiles_StopsAtError(fh, files, patterns, paths) ==
  IF paths = <<>> THEN fh
  ELSE IF files[Head(paths)].perm # "ok" THEN fh
  ELSE ScanFiles_StopsAtError(ScanFile(fh, files, patterns, Head(paths)),
                              files, patterns, Tail(paths))

RECURSIVE ScanFiles(_, _, _, _)
ScanFiles(fh, files, patterns, paths) ==
  IF paths = <<>> THEN fh
  ELSE ScanFiles(ScanFile(fh, files, patterns, Head(paths)), files, patterns, Tail(paths))

\* "for directory in self.directories"
RECURSIVE ScanRoots(_, _, _, _, _)
ScanRoots(fh, files, ds, patterns, roots) ==
  IF roots = <<>> THEN fh
  ELSE IF Head(roots) \notin ds
       THEN ScanRoots(fh, files, ds, patterns, Tail(roots))
       ELSE ScanRoots(ScanFiles(fh, files, patterns, Walk(files, ds, Head(roots))),
                      files, ds, patterns, Tail(roots))

\* -------------------------------------------------------- find_duplicates
\* list.sort(key=lambda x: x[2]) is stable: x goes after the members that
\* are not newer than it.
\* A variant that puts x before the members as old as it is.
InsertByMtime_BeforeEqual(sorted, x) ==
  LET n == Cardinality({ i \in DOMAIN sorted : sorted[i].mtime < x.mtime })
  IN  SubSeq(sorted, 1, n) \o <<x>> \o SubSeq(sorted, n + 1, Len(sorted))

\* A variant that leaves the members in scan order.
InsertByMtime_ScanOrder(sorted, x) == Append(sorted, x)

InsertByMtime(sorted, x) ==
  LET n == Cardinality({ i \in DOMAIN sorted : sorted[i].mtime <= x.mtime })
  IN  SubSeq(sorted, 1, n) \o <<x>> \o SubSeq(sorted, n + 1, Len(sorted))

RECURSIVE SortByMtime(_)
SortByMtime(list) ==
  IF list = <<>> THEN <<>>
  ELSE InsertByMtime(SortByMtime(SubSeq(list, 1, Len(list) - 1)), list[Len(list)])

\* A variant that keeps the lists of one record too.
IsDuplicateSet_KeepsSingle(file_list) == Len(file_list) > 0

IsDuplicateSet(file_list) == Len(file_list) > 1

FindDuplicates(fh) ==
  LET kept == SelectSeq(fh, LAMBDA e : IsDuplicateSet(e.files))
  IN  [i \in DOMAIN kept |->
         [hash |-> kept[i].hash, files |-> SortByMtime(kept[i].files)]]

\* ------------------------------------------------- the resolution loops
\* The (group, member) positions the nested loops visit, in order: every
\* member but the first of every group.
RECURSIVE CandidatesFrom(_, _)
CandidatesFrom(dups, g) ==
  IF g > Len(dups) THEN <<>>
  ELSE [i \in 1..(Len(dups[g].files) - 1) |-> [g |-> g, i |-> i + 1]]
         \o CandidatesFrom(dups, g + 1)

Candidates(dups) == CandidatesFrom(dups, 1)

Member(dups, c) == dups[c.g].files[c.i]

\* A variant that prompts in a dry run too.
NeedsPrompt_IgnoresDryRun(inter, dry) == inter

\* "if interactive and not dry_run": the candidate is prompted for.
NeedsPrompt(inter, dry) == inter /\ ~dry

\* A variant in which q skips the candidate like any answer but y.
PromptOutcome_QuitSkips(response) ==
  IF response # "y" THEN "skip" ELSE "delete"

\* What the lowered response to "Delete ...? (y/n/q)" leads to.
PromptOutcome(response) ==
  IF response = "q" THEN "abort"
  ELSE IF response # "y" THEN "skip"
  ELSE "delete"

\* "if not dry_run": the file system is changed.
Mutates(dry) == ~dry

\* A variant that counts a candidate before unlink or move is tried.
Counted_BeforeTrying(outcome) == outcome \notin {"skipped", "abort"}

\* removed_count += 1 / space_freed += size / moved_count += 1 are reached
\* only when unlink (or move, or the dry-run print) did not raise.
Counted(outcome) == outcome \in {"deleted", "would delete", "moved", "would move"}

\* A variant in which the error ends the loops.
NextAfterError_Stops(pos, n) == n + 1

\* "except OSError": the error is printed and the loop goes on with the next
\* candidate of the n candidates.
NextAfterError(pos, n) == pos + 1

\* Path.exists()
Exists(files, p) == p \in DOMAIN files

\* counter = 1; new_name = filepath.name; while (target / new_name).exists(): ...
RECURSIVE RenameLoop(_, _, _, _, _)
RenameLoop(files, t, name, new_name, counter) ==
  IF Exists(files, [dir |-> t, name |-> new_name])
  THEN RenameLoop(files, t, name,
                  Stem(name) \o "_" \o ToString(counter) \o Suffix(name),
                  counter + 1)
  ELSE new_name

\* A variant whose first numbered name is <stem>_2<suffix>.
UniqueName_StartsAtTwo(files, t, name) == RenameLoop(files, t, name, name, 2)

\* A variant that keeps the name without looking at the target.
UniqueName_KeepsName(files, t, name) == name

UniqueName(files, t, name) == RenameLoop(files, t, name, name, 1)

\* Path.unlink()
Unlink(files, p) == [q \in (DOMAIN files) \ {p} |-> files[q]]

\* shutil.move(src, dst): rename, replacing a file that is at dst.
MoveFile(files, src, dst) ==
  [q \in ((DOMAIN files) \ {src}) \cup {dst} |->
     IF q = dst THEN files[src] ELSE files[q]]

\* target_path.mkdir(parents=True, exist_ok=True)
Mkdir(ds, t) == ds \cup {t}

\* The last line remove_duplicates prints.
RemoveReport(dry, space, count) ==
  [action |-> IF dry THEN "Would free" ELSE "Freed", bytes |-> space, count |-> count]

\* The last line move_duplicates_to_folder prints.
MoveReport(dry, count, t) ==
  [action |-> IF dry THEN "Would move" ELSE "Moved", count |-> count, target |-> t]

NoReport == [action |-> "none"]

\* ------------------------------------------------------------------ state
Init ==
  /\ fs \in FileSystemsOver(ScannedSlots \cup {OutsideSlot}, ReadableStates)
  /\ fs0 = fs
  /\ dirs = InitialDirs
  /\ directories \in RootLists
  /\ ignore_patterns = <<".DS_Store", "Thumbs.db">>
  /\ file_hashes = <<>>
  /\ duplicates = <<>>
  /\ pc = "start"
  /\ interactive = FALSE
  /\ dry_run = FALSE
  /\ target = "-"
  /\ k = 0
  /\ removed_count = 0
  /\ space_freed = 0
  /\ moved_count = 0
  /\ events = <<>>
  /\ report = NoReport
  /\ FileHasherUnused
  /\ CleanerUnused

\* finder.scan_directories()
ScanDirectories ==
  /\ pc = "start"
  /\ file_hashes' = ScanRoots(file_hashes, fs, dirs, ignore_patterns, directories)
  /\ pc' = "scanned"
  /\ UNCHANGED <<file_hasher_vars, cleaner_vars>>
  /\ UNCHANGED <<fs, dirs, fs0, directories, ignore_patterns, duplicates, interactive,
                 dry_run, target, k, removed_count, space_freed, moved_count,
                 events, report>>

\* finder.find_duplicates()
FindDuplicatesStep ==
  /\ pc = "scanned"
  /\ duplicates' = FindDuplicates(file_hashes)
  /\ file_hashes' =
       [i \in DOMAIN file_hashes |->
          IF IsDuplicateSet(file_hashes[i].files)
          THEN [hash |-> file_hashes[i].hash, files |-> SortByMtime(file_hashes[i].files)]
          ELSE file_hashes[i]]
  /\ pc' = "found"
  /\ UNCHANGED <<file_hasher_vars, cleaner_vars>>
  /\ UNCHANGED <<fs, dirs, fs0, directories, ignore_patterns, interactive,
                 dry_run, target, k, removed_count, space_freed, moved_count,
                 events, report>>

\* finder.remove_duplicates(interactive, dry_run): up to the first candidate.
RemoveDuplicates(inter, dry) ==
  /\ pc = "found"
  /\ interactive' = inter
  /\ dry_run' = dry
  /\ IF duplicates = <<>>
     THEN pc' = "removed" /\ k' = k
     ELSE pc' = "remove" /\ k' = 1
  /\ UNCHANGED <<file_hasher_vars, cleaner_vars>>
  /\ UNCHANGED <<fs, dirs, fs0, directories, ignore_patterns, file_hashes, duplicates,
                 target, removed_count, space_freed, moved_count, events, report>>

RemoveEvent(pos, m, response, outcome) ==
  [pos |-> pos, path |-> m.path, size |-> m.size, response |-> response,
   outcome |-> outcome]

\* The OS errors other than "no such file" (permission denied, read-only file
\* system) that unlink and move have raised so far.
Denied(evs) == Cardinality({ i \in DOMAIN evs : evs[i].outcome = "denied" })

Failed(outcome) == outcome \in {"missing", "denied"}

\* filepath.unlink(): deleted, or the OSError it raises.
UnlinkOutcome(files, p, os_ok) ==
  IF ~Exists(files, p) THEN "missing"
  ELSE IF ~os_ok THEN "denied"
  ELSE "deleted"

\* One candidate of "for filepath, size, mtime in duplicates_to_remove".
RemoveCandidate(response, os_ok) ==
  /\ pc = "remove"
  /\ k <= Len(Candidates(duplicates))
  /\ os_ok \/ Denied(events) < MaxOSErrors
  /\ \E n \in {Len(Candidates(duplicates))},
        m \in {Member(duplicates, Candidates(duplicates)[k])},
        prompted \in {NeedsPrompt(interactive, dry_run)} :
       /\ IF prompted THEN response \in Responses ELSE response = "-"
       /\ \E answer \in {IF prompted THEN PromptOutcome(Lower(response)) ELSE "delete"} :
          \E outcome \in
              { IF answer = "abort" THEN "abort"
                ELSE IF answer = "skip" THEN "skipped"
                ELSE IF ~Mutates(dry_run) THEN "would delete"
                ELSE UnlinkOutcome(fs, m.path, os_ok) } :
            /\ (outcome \in {"deleted", "denied"}) \/ os_ok
            /\ events' = Append(events,
                 RemoveEvent(k, m, IF prompted THEN Lower(response) ELSE "-", outcome))
            /\ fs' = IF outcome = "deleted" THEN Unlink(fs, m.path) ELSE fs
            /\ removed_count' = IF Counted(outcome) THEN removed_count + 1 ELSE removed_count
            /\ space_freed' = IF Counted(outcome) THEN space_freed + m.size ELSE space_freed
            /\ pc' = IF outcome = "abort" THEN "removed" ELSE "remove"
            /\ k' = IF outcome = "abort" THEN k
                    ELSE IF Failed(outcome) THEN NextAfterError(k, n)
                    ELSE k + 1
  /\ UNCHANGED <<file_hasher_vars, cleaner_vars>>
  /\ UNCHANGED <<dirs, fs0, directories, ignore_patterns, file_hashes, duplicates,
                 interactive, dry_run, target, moved_count, report>>

\* The loops of remove_duplicates are over: the summary line.
RemoveFinish ==
  /\ pc = "remove"
  /\ k > Len(Candidates(duplicates))
  /\ report' = RemoveReport(dry_run, space_freed, removed_count)
  /\ pc' = "removed"
  /\ UNCHANGED <<file_hasher_vars, cleaner_vars>>
  /\ UNCHANGED <<fs, dirs, fs0, directories, ignore_patterns, file_hashes, duplicates,
                 interactive, dry_run, target, k, removed_count, space_freed,
                 moved_count, events>>

\* finder.move_duplicates_to_folder(target_folder, dry_run): up to the first
\* candidate.
MoveDuplicates(t, dry) ==
  /\ pc = "found"
  /\ target' = t
  /\ dry_run' = dry
  /\ IF duplicates = <<>>
     THEN pc' = "moved" /\ k' = k /\ dirs' = dirs
     ELSE /\ pc' = "move"
          /\ k' = 1
          /\ dirs' = IF Mutates(dry) THEN Mkdir(dirs, t) ELSE dirs
  /\ UNCHANGED <<file_hasher_vars, cleaner_vars>>
  /\ UNCHANGED <<fs, fs0, directories, ignore_patterns, file_hashes, duplicates,
                 interactive, removed_count, space_freed, moved_count, events, report>>

MoveEvent(pos, m, dst, outcome) ==
  [pos |-> pos, path |-> m.path, size |-> m.size, dst |-> dst, outcome |-> outcome]

\* shutil.move(): moved, or the OSError it raises.
MoveOutcome(files, p, os_ok) ==
  IF ~Exists(files, p) THEN "missing"
  ELSE IF ~os_ok THEN "denied"
  ELSE "moved"

\* One candidate of "for filepath, size, mtime in duplicates_to_move".
MoveCandidate(os_ok) ==
  /\ pc = "move"
  /\ k <= Len(Candidates(duplicates))
  /\ os_ok \/ Denied(events) < MaxOSErrors
  /\ \E n \in {Len(Candidates(duplicates))},
        m \in {Member(duplicates, Candidates(duplicates)[k])} :
     \E new_path \in {[dir |-> target, name |-> UniqueName(fs, target, m.path.name)]},
        outcome \in
          { IF ~Mutates(dry_run) THEN "would move" ELSE MoveOutcome(fs, m.path, os_ok) } :
       /\ (outcome \in {"moved", "denied"}) \/ os_ok
       /\ events' = Append(events, MoveEvent(k, m, new_path, outcome))
       /\ fs' = IF outcome = "moved" THEN MoveFile(fs, m.path, new_path) ELSE fs
       /\ moved_count' = IF Counted(outcome) THEN moved_count + 1 ELSE moved_count
       /\ k' = IF Failed(outcome) THEN NextAfterError(k, n) ELSE k + 1
  /\ UNCHANGED <<file_hasher_vars, cleaner_vars>>
  /\ UNCHANGED <<dirs, fs0, directories, ignore_patterns, file_hashes, duplicates,
                 pc, interactive, dry_run, target, removed_count, space_freed, report>>

\* The loops of move_duplicates_to_folder are over: the summary line.
MoveFinish ==
  /\ pc = "move"
  /\ k > Len(Candidates(duplicates))
  /\ report' = MoveReport(dry_run, moved_count, target)
  /\ pc' = "moved"
  /\ UNCHANGED <<file_hasher_vars, cleaner_vars>>
  /\ UNCHANGED <<fs, dirs, fs0, directories, ignore_patterns, file_hashes, duplicates,
                 interactive, dry_run, target, k, removed_count, space_freed,
                 moved_count, events>>

Next ==
  \/ ScanDirectories
  \/ FindDuplicatesStep
  \/ \E inter \in BOOLEAN, dry \in BOOLEAN : RemoveDuplicates(inter, dry)
  \/ \E response \in Responses \cup {"-"}, os_ok \in BOOLEAN :
       RemoveCandidate(response, os_ok)
  \/ RemoveFinish
  \/ \E t \in TargetDirs, dry \in BOOLEAN : MoveDuplicates(t, dry)
  \/ \E os_ok \in BOOLEAN : MoveCandidate(os_ok)
  \/ MoveFinish

Spec == Init /\ [][Next]_vars

\* ------------------------------------------------ the scan, on its own
\* scan_directories and find_duplicates over file systems that also hold
\* ignored files and files that cannot be read, for every list of roots.
ScanInit ==
  /\ fs \in FileSystemsOver(Slots, ReadableStates \cup FailingStates)
  /\ fs0 = fs
  /\ dirs = InitialDirs
  /\ directories \in ScanRootLists
  /\ ignore_patterns = <<".DS_Store", "Thumbs.db">>
  /\ file_hashes = <<>>
  /\ duplicates = <<>>
  /\ pc = "start"
  /\ interactive = FALSE
  /\ dry_run = FALSE
  /\ target = "-"
  /\ k = 0
  /\ removed_count = 0
  /\ space_freed = 0
  /\ moved_count = 0
  /\ events = <<>>
  /\ report = NoReport
  /\ FileHasherUnused
  /\ CleanerUnused

ScanNext == ScanDirectories \/ FindDuplicatesStep

ScanSpec == ScanInit /\ [][ScanNext]_vars

\* ----------------------------------------------------------- properties
\* The positions (entry, member) of the records of a dictionary of lists.
Positions(d) == UNION { { <<g, i>> : i \in DOMAIN d[g].files } : g \in DOMAIN d }

RecordsOf(d, p) == { pos \in Positions(d) : d[pos[1]].files[pos[2]].path = p }

Original(g) == duplicates[g].files[1]

Resolving == pc \in {"remove", "move", "removed", "moved"}

\* The run of remove_duplicates or move_duplicates_to_folder printed its summary.
Completed == report # NoReport

EventsWith(outcomes) == { i \in DOMAIN events : events[i].outcome \in outcomes }

RECURSIVE SumSizes(_)
SumSizes(S) ==
  IF S = {} THEN 0
  ELSE LET i == CHOOSE x \in S : TRUE
       IN  Member(duplicates, Candidates(duplicates)[i]).size + SumSizes(S \ {i})

\* C1: the file at the path of the first member of every duplicate group is
\* never deleted or moved: it exists at its original path, unchanged, at every
\* point of every run, for every list of roots, mode and user response.
C1_OriginalNeverTouched ==
  \A g \in DOMAIN duplicates :
    Exists(fs, Original(g).path) /\ fs[Original(g).path] = fs0[Original(g).path]

\* C2: with dry_run set, remove_duplicates and move_duplicates_to_folder leave
\* the files and the directories as they were, prompt for nothing, and only
\* report what they would do, whatever interactive is.
C2_DryRunChangesNothing ==
  (Resolving /\ dry_run) =>
    /\ fs = fs0
    /\ dirs = InitialDirs
    /\ \A i \in DOMAIN events :
         /\ events[i].outcome \in {"would delete", "would move"}
         /\ pc \in {"remove", "removed"} => events[i].response = "-"

C2_Witness ==
  /\ pc = "removed" /\ dry_run /\ interactive
  /\ Len(events) >= 2
  /\ Completed

\* C3: in an interactive remove_duplicates that is no dry run, the answer q is
\* the last thing that happens: the call has returned without a summary, no
\* candidate is prompted for or deleted after it, and the files missing are
\* exactly those whose prompt was answered y before it.
C3_AbortStopsAtOnce ==
  (pc \in {"remove", "removed"} /\ interactive /\ ~dry_run) =>
    /\ \A i \in DOMAIN events :
         events[i].response = "q" =>
           /\ i = Len(events)
           /\ events[i].outcome = "abort"
           /\ pc = "removed"
           /\ ~Completed
    /\ (DOMAIN fs0) \ (DOMAIN fs) =
         { events[i].path : i \in { j \in EventsWith({"deleted"}) : events[j].response = "y" } }
    /\ \A p \in DOMAIN fs : fs[p] = fs0[p]

C3_Witness ==
  /\ pc = "removed" /\ interactive /\ ~dry_run
  /\ Len(events) >= 2
  /\ events[1].outcome = "deleted"
  /\ events[Len(events)].response = "q"
  /\ Len(events) < Len(Candidates(duplicates))
  /\ \E g \in DOMAIN duplicates : g > Candidates(duplicates)[Len(events)].g

\* C4: an OS error of one deletion does not stop remove_duplicates: the loop
\* goes on with the very next candidate, and a run that is not aborted has
\* processed every candidate of every group, in order, when it prints its
\* summary.
C4_DeleteErrorDoesNotStop ==
  /\ pc = "remove" => k = Len(events) + 1
  /\ pc \in {"remove", "removed"} => \A i \in DOMAIN events : events[i].pos = i
  /\ (pc = "removed" /\ Completed) => Len(events) = Len(Candidates(duplicates))

C4_Witness ==
  /\ pc = "removed" /\ Completed
  /\ Len(events) >= 2
  /\ events[1].outcome = "denied"
  /\ events[2].outcome = "deleted"
  /\ Candidates(duplicates)[2].g > Candidates(duplicates)[1].g

\* No file is overwritten by a move: the number of files stays the same, the
\* files that are not moved keep their content, every moved file is at its
\* destination, and the destinations are pairwise distinct.
C5_NoOverwrite ==
  (pc \in {"move", "moved"} /\ ~dry_run) =>
    /\ Cardinality(DOMAIN fs) = Cardinality(DOMAIN fs0)
    /\ \A i, j \in EventsWith({"moved"}) : i # j => events[i].dst # events[j].dst
    /\ \A i \in EventsWith({"moved"}) :
         /\ Exists(fs, events[i].dst)
         /\ fs[events[i].dst] = fs0[events[i].path]
    /\ \A p \in DOMAIN fs0 :
         p \notin { events[i].path : i \in EventsWith({"moved"}) } =>
           Exists(fs, p) /\ fs[p] = fs0[p]

\* The destination of a move does not exist in the state the move starts from.
C5_DestinationFree ==
  [][ (pc = "move" /\ ~dry_run /\ Len(events') > Len(events)
         /\ events'[Len(events')].outcome = "moved")
        => ~Exists(fs, events'[Len(events')].dst) ]_vars

\* C5: in a move that is no dry run, the destination of every move does not
\* exist just before the move, with the earlier moves of the run done; no file
\* of the target directory and no file moved earlier is overwritten, and the
\* moved files are at pairwise distinct paths.
C5_MoveNeverOverwrites == []C5_NoOverwrite /\ C5_DestinationFree

C5_Witness ==
  /\ pc = "moved" /\ ~dry_run /\ Completed
  /\ \E i, j \in EventsWith({"moved"}) :
       /\ i < j
       /\ events[i].path.name = "dup.txt" /\ events[j].path.name = "dup.txt"
       /\ events[i].path.dir # events[j].path.dir
       /\ events[i].dst.name = "dup.txt" /\ events[j].dst.name = "dup_1.txt"

\* C6: after a remove_duplicates that is neither interactive nor a dry run and
\* in which no deletion fails, the first member of every group exists, every
\* other member is deleted, and nothing else is deleted.
C6_ExactlyDuplicatesDeleted ==
  (pc = "removed" /\ ~interactive /\ ~dry_run /\ EventsWith({"missing", "denied"}) = {}) =>
    /\ \A g \in DOMAIN duplicates :
         /\ Exists(fs, Original(g).path)
         /\ \A i \in 2..Len(duplicates[g].files) : ~Exists(fs, duplicates[g].files[i].path)
    /\ (DOMAIN fs0) \ (DOMAIN fs) \subseteq
         { duplicates[g].files[i].path :
             <<g, i>> \in { pos \in Positions(duplicates) : pos[2] >= 2 } }

\* C7: the summary of remove_duplicates counts the members deleted (in a dry
\* run: reported as would-delete) and adds up their sizes as scanned; members
\* skipped and members whose deletion failed count for nothing.
C7_RemoveSummary ==
  (pc = "removed" /\ Completed) =>
    /\ report.count = Cardinality(EventsWith({"deleted", "would delete"}))
    /\ report.bytes = SumSizes(EventsWith({"deleted", "would delete"}))

C7_Witness ==
  /\ pc = "removed" /\ Completed /\ ~dry_run
  /\ EventsWith({"skipped"}) # {}
  /\ EventsWith({"denied"}) # {}
  /\ EventsWith({"deleted"}) # {}
  /\ report.bytes > 0

\* C8, as claimed: the summary of move_duplicates_to_folder gives the count of
\* members moved and the bytes relocated, the sum of the sizes of the members
\* moved.
C8_MoveSummaryHasBytes ==
  (pc = "moved" /\ Completed) =>
    /\ report.count = Cardinality(EventsWith({"moved", "would move"}))
    /\ "bytes" \in DOMAIN report
    /\ report.bytes = SumSizes(EventsWith({"moved", "would move"}))

\* C8, amended: the summary of move_duplicates_to_folder gives the count of
\* members moved (in a dry run: reported as would-move), members whose move
\* failed not counted, and the target folder; it gives no bytes.
C8_MoveSummaryCountOnly ==
  (pc = "moved" /\ Completed) =>
    /\ report.count = Cardinality(EventsWith({"moved", "would move"}))
    /\ report.target = target
    /\ DOMAIN report = {"action", "count", "target"}

C8_Witness ==
  /\ pc = "moved" /\ Completed /\ ~dry_run
  /\ EventsWith({"denied"}) # {}
  /\ EventsWith({"moved"}) # {}

UnderSomeRoot(p) == \E r \in Range(directories) : IsUnder(p.dir, r)

\* The files the scan is to record.
Eligible(p) ==
  /\ UnderSomeRoot(p)
  /\ fs0[p].content # ""
  /\ fs0[p].perm = "ok"
  /\ ~should_ignore_file(p, ignore_patterns)

\* C9: after scan_directories every non-empty, non-ignored, readable file
\* under some root is in exactly one record of file_hashes, and no path is in
\* two records, for every list of roots.
C9_EachFileRecordedOnce ==
  pc # "start" =>
    \A p \in DOMAIN fs0 :
      /\ Eligible(p) => Cardinality(RecordsOf(file_hashes, p)) = 1
      /\ Cardinality(RecordsOf(file_hashes, p)) <= 1

\* C10: in every group of self.duplicates every member's content has the
\* digest that is the group's key, and the members are in non-decreasing
\* order of modification time; so it is after find_duplicates and after
\* remove_duplicates or move_duplicates_to_folder.
C10_GroupsSameDigestSorted ==
  \A g \in DOMAIN duplicates :
    /\ \A i \in DOMAIN duplicates[g].files :
         MD5(fs0[duplicates[g].files[i].path].content) = duplicates[g].hash
    /\ \A i, j \in DOMAIN duplicates[g].files :
         i < j => duplicates[g].files[i].mtime <= duplicates[g].files[j].mtime
    /\ \A i \in DOMAIN duplicates[g].files : Original(g).mtime <= duplicates[g].files[i].mtime

C10_Witness ==
  /\ pc \in {"removed", "moved"} /\ Completed /\ ~dry_run
  /\ \E g \in DOMAIN duplicates :
       /\ Len(duplicates[g].files) >= 3
       /\ Original(g).mtime < duplicates[g].files[Len(duplicates[g].files)].mtime
       /\ \E h \in DOMAIN duplicates : h # g

\* How many times x is in the sequence s.
Count(s, x) == Cardinality({ i \in DOMAIN s : s[i] = x })

SameRecords(a, b) == \A x \in Range(a) \cup Range(b) : Count(a, x) = Count(b, x)

\* The groups dups are the digest classes of two or more records of the
\* scanned records fh, each class once, with all of its records.
GroupsAreSharedClasses(fh, dups) ==
  /\ \A i, j \in DOMAIN fh : fh[i].hash = fh[j].hash => i = j
  /\ \A i \in DOMAIN fh : \A r \in DOMAIN fh[i].files :
       MD5(fs0[fh[i].files[r].path].content) = fh[i].hash
  /\ \A g \in DOMAIN dups : Len(dups[g].files) >= 2
  /\ \A g, h \in DOMAIN dups : dups[g].hash = dups[h].hash => g = h
  /\ \A g \in DOMAIN dups :
       \E i \in DOMAIN fh :
         fh[i].hash = dups[g].hash /\ SameRecords(fh[i].files, dups[g].files)
  /\ \A i \in DOMAIN fh :
       (Len(fh[i].files) >= 2) <=> (\E g \in DOMAIN dups : dups[g].hash = fh[i].hash)

\* C11: find_duplicates keeps exactly the digest classes of two or more scanned
\* records: every group has at least 2 members, every record whose digest is
\* shared is in exactly one group, no record with a unique digest is in a group.
C11_GroupsAreSharedDigests ==
  [][ pc = "scanned" => GroupsAreSharedClasses(file_hashes, duplicates') ]_vars

C11_Witness ==
  /\ pc = "found"
  /\ Len(duplicates) >= 1
  /\ Len(file_hashes) > Len(duplicates)
  /\ \E g \in DOMAIN duplicates : Len(duplicates[g].files) >= 3

\* The members of group that are of modification time m, in order.
OfMtime(group, m) == SelectSeq(group, LAMBDA x : x.mtime = m)

\* C12: in every duplicate group the members of one modification time are in
\* the order in which the scan recorded them.
C12_TiesKeepScanOrder ==
  [][ pc = "scanned" =>
        \A g \in DOMAIN duplicates' : \A i \in DOMAIN file_hashes :
          file_hashes[i].hash = duplicates'[g].hash =>
            \A m \in Mtimes :
              OfMtime(duplicates'[g].files, m) = OfMtime(file_hashes[i].files, m) ]_vars

C12_Witness ==
  /\ pc = "found"
  /\ \E g \in DOMAIN duplicates : \E i, j \in DOMAIN duplicates[g].files :
       /\ i < j
       /\ duplicates[g].files[i].mtime = duplicates[g].files[j].mtime
       /\ duplicates[g].files[i].path # duplicates[g].files[j].path
       /\ \E l \in DOMAIN duplicates[g].files : duplicates[g].files[l].mtime < duplicates[g].files[i].mtime

\* What find_duplicates finds after a scan_directories of a new finder over the
\* same roots, with the files as they are now.
SecondRunDuplicates ==
  FindDuplicates(ScanRoots(<<>>, fs, dirs, ignore_patterns, directories))

\* C13: after a resolution that is no dry run and has deleted (or moved) every
\* candidate, a second scan_directories + find_duplicates over the same roots
\* finds no duplicate group, whatever the target folder is.
C13_SecondRunFindsNothing ==
  (/\ pc \in {"removed", "moved"} /\ Completed /\ ~dry_run
   /\ EventsWith({"deleted", "moved"}) = DOMAIN events
   /\ Len(directories) = 1)
    => SecondRunDuplicates = <<>>

\* =================================================== file_hasher.py
\* ------------------------------------------------------- the bounds
MaxAlgorithms == 2

\* ------------------------------------------------------- the inputs
SUPPORTED_ALGORITHMS == {"md5", "sha1", "sha256", "sha512", "blake2b", "blake2s"}

\* The identifiers a caller passes: supported ones, crc32, one unknown.
AlgorithmNames == {"md5", "sha256", "crc32", "sha3"}

AlgorithmLists == SeqsUpTo(AlgorithmNames, MaxAlgorithms)

ChunkSizes == {1, 2}

FileContents == {"", "ab", "abc"}

Min(a, b) == IF a <= b THEN a ELSE b

\* The number of read() calls of a complete read loop: one per chunk and the
\* last one, which returns b''.
ReadCalls(content, cs) == (Len(content) + cs - 1) \div cs + 1

\* A file at filepath: open() may raise, or the read() call number fail_read.
HFile(content, fail_open, fail_read) ==
  [kind |-> "file", content |-> content, fail_open |-> fail_open,
   fail_read |-> fail_read]

HFilesFor(cs) ==
  { [kind |-> "absent"] }
    \cup { HFile(c, TRUE, 0) : c \in FileContents }
    \cup UNION { { HFile(c, FALSE, j) : j \in 0..ReadCalls(c, cs) } : c \in FileContents }

\* ------------------------------------------------------- the digests
\* A hashlib object holds what update() gave it; hexdigest() is the digest
\* of all of it (first digits).
HexDigest(name, data) ==
  CASE name = "md5" ->
         (CASE data = "" -> "d41d8cd9" [] data = "a" -> "0cc175b9"
           [] data = "ab" -> "187ef443" [] data = "abc" -> "90015098")
    [] name = "sha1" ->
         (CASE data = "" -> "da39a3ee" [] data = "a" -> "86f7e437"
           [] data = "ab" -> "da23614e" [] data = "abc" -> "a9993e36")
    [] name = "sha256" ->
         (CASE data = "" -> "e3b0c442" [] data = "a" -> "ca978112"
           [] data = "ab" -> "fb8e20fc" [] data = "abc" -> "ba7816bf")
    [] name = "sha512" ->
         (CASE data = "" -> "cf83e135" [] data = "a" -> "1f40fc92"
           [] data = "ab" -> "2d408a07" [] data = "abc" -> "ddaf35a1")
    [] name = "blake2b" ->
         (CASE data = "" -> "786a02f7" [] data = "a" -> "333fcb4e"
           [] data = "ab" -> "b32c0573" [] data = "abc" -> "ba80a53f")
    [] name = "blake2s" ->
         (CASE data = "" -> "69217a30" [] data = "a" -> "4a0d1298"
           [] data = "ab" -> "19c3ebee" [] data = "abc" -> "508c5e8c")

\* A 32-bit word is the sequence of its bits, the lowest first.
Word(b) == [i \in 1..32 |-> b]

Xor(v, w) == [i \in 1..32 |-> (v[i] + w[i]) % 2]

ShiftRight(w) == [i \in 1..32 |-> IF i < 32 THEN w[i + 1] ELSE 0]

\* The polynomial of CRC-32, 0xEDB88320.
CrcPolynomial ==
  <<0,0,0,0,0,1,0,0, 1,1,0,0,0,0,0,1, 0,0,0,1,1,1,0,1, 1,0,1,1,0,1,1,1>>

\* The byte of a character.
Ord(c) == CASE c = "a" -> 97 [] c = "b" -> 98 [] c = "c" -> 99

ByteWord(n) == [i \in 1..32 |-> IF i <= 8 THEN (n \div 2^(i - 1)) % 2 ELSE 0]

RECURSIVE CrcBits(_, _)
CrcBits(w, n) ==
  IF n = 0 THEN w
  ELSE CrcBits(IF w[1] = 1 THEN Xor(ShiftRight(w), CrcPolynomial)
               ELSE ShiftRight(w), n - 1)

RECURSIVE CrcBytes(_, _)
CrcBytes(w, data) ==
  IF data = "" THEN w
  ELSE CrcBytes(CrcBits(Xor(w, ByteWord(Ord(SubSeq(data, 1, 1)))), 8),
                SubSeq(data, 2, Len(data)))

\* zlib.crc32(chunk, crc)
zlib_crc32(chunk, crc) == Xor(CrcBytes(Xor(crc, Word(1)), chunk), Word(1))

HexDigit(n) == SubSeq("0123456789abcdef", n + 1, n + 1)

\* The hexadecimal digit of the bits 4j-3..4j of w.
Nibble(w, j) == HexDigit(w[4*j - 3] + 2 * w[4*j - 2] + 4 * w[4*j - 1] + 8 * w[4*j])

\* f"{crc & 0xffffffff:08x}"
Hex08(crc) ==
  LET w == [i \in 1..32 |-> crc[i] * Word(1)[i]]
  IN  Nibble(w, 8) \o Nibble(w, 7) \o Nibble(w, 6) \o Nibble(w, 5)
        \o Nibble(w, 4) \o Nibble(w, 3) \o Nibble(w, 2) \o Nibble(w, 1)

\* ------------------------------------------------------- reading a file
\* The loop "while chunk := f.read(self.chunk_size)" from offset pos on, call
\* being the number of this read() call: the chunks read, the offsets of all
\* read() calls, and whether the loop ended without an error.
RECURSIVE ReadLoop(_, _, _, _)
ReadLoop(f, cs, pos, call) ==
  IF f.fail_read = call
  THEN [ok |-> FALSE, chunks |-> <<>>, reads |-> <<pos>>]
  ELSE LET chunk == SubSeq(f.content, pos + 1, Min(pos + cs, Len(f.content)))
       IN  IF chunk = ""
           THEN [ok |-> TRUE, chunks |-> <<>>, reads |-> <<pos>>]
           ELSE LET rest == ReadLoop(f, cs, pos + Len(chunk), call + 1)
                IN  [ok |-> rest.ok, chunks |-> <<chunk>> \o rest.chunks,
                     reads |-> <<pos>> \o rest.reads]

\* A variant in which an error of read() ends the loop like the end of the file.
OpenAndRead_HidesError(f, cs) ==
  IF f.kind # "file" \/ f.fail_open
  THEN [ok |-> FALSE, chunks |-> <<>>, opens |-> 1, reads |-> <<>>]
  ELSE LET r == ReadLoop(f, cs, 0, 1)
       IN  [ok |-> TRUE, chunks |-> r.chunks, opens |-> 1, reads |-> r.reads]

\* with open(filepath, 'rb') as f: while chunk := f.read(self.chunk_size): ...
OpenAndRead(f, cs) ==
  IF f.kind # "file" \/ f.fail_open
  THEN [ok |-> FALSE, chunks |-> <<>>, opens |-> 1, reads |-> <<>>]
  ELSE LET r == ReadLoop(f, cs, 0, 1)
       IN  [ok |-> r.ok, chunks |-> r.chunks, opens |-> 1, reads |-> r.reads]

\* What a call did and gave: the exception it raised ("" when none), the
\* value or the dict it returned, and its open() and read() calls.
Out(raised, value, hashes, error, opens, reads) ==
  [raised |-> raised, value |-> value, hashes |-> hashes, error |-> error,
   opens |-> opens, reads |-> reads]

NoHashes == <<>>

UnsupportedAlgorithm(algorithm) ==
  Out("Unsupported algorithm: " \o algorithm, "-", NoHashes, "", 0, <<>>)

\* ------------------------------------------------------- FileHasher
RECURSIVE Crc32OfChunks(_, _)
Crc32OfChunks(chunks, crc) ==
  IF chunks = <<>> THEN crc
  ELSE Crc32OfChunks(Tail(chunks), zlib_crc32(Head(chunks), crc))

\* hash_obj.update(chunk) for every chunk
RECURSIVE UpdateWithChunks(_, _)
UpdateWithChunks(chunks, data) ==
  IF chunks = <<>> THEN data
  ELSE UpdateWithChunks(Tail(chunks), data \o Head(chunks))

calculate_crc32(f, cs) ==
  LET r == OpenAndRead(f, cs)
  IN  [ok |-> r.ok, opens |-> r.opens, reads |-> r.reads,
       value |-> IF r.ok THEN Hex08(Crc32OfChunks(r.chunks, Word(0))) ELSE "-"]

calculate_cryptographic_hash(f, algorithm, cs) ==
  LET r == OpenAndRead(f, cs)
  IN  [ok |-> r.ok, opens |-> r.opens, reads |-> r.reads,
       value |-> IF r.ok THEN HexDigest(algorithm, UpdateWithChunks(r.chunks, ""))
                 ELSE "-"]

IsSupported(algorithm) ==
  algorithm \in SUPPORTED_ALGORITHMS \/ algorithm = "crc32"

calculate_hash(f, algorithm, cs) ==
  IF ~IsSupported(algorithm) THEN UnsupportedAlgorithm(algorithm)
  ELSE LET r == IF algorithm = "crc32" THEN calculate_crc32(f, cs)
                ELSE calculate_cryptographic_hash(f, algorithm, cs)
       IN  Out("", IF r.ok THEN r.value ELSE "None", NoHashes, "", r.opens, r.reads)

\* The first identifier of algos that is not supported.
FirstUnsupported(algos) ==
  algos[CHOOSE i \in DOMAIN algos :
          /\ ~IsSupported(algos[i])
          /\ \A j \in 1..(i - 1) : IsSupported(algos[j])]

\* A variant that leaves the identifiers it does not know out.
BuildHashObjects_SkipsUnknown(algos) ==
  [raised |-> "",
   objects |-> [a \in { x \in Range(algos) : IsSupported(x) } |->
                  IF a = "crc32" THEN Word(0) ELSE ""]]

\* The loop that fills hash_objects: the crc of crc32 starts at 0, a hashlib
\* object has been given nothing.
BuildHashObjects(algos) ==
  IF \E a \in Range(algos) : ~IsSupported(a)
  THEN [raised |-> "Unsupported algorithm: " \o FirstUnsupported(algos),
        objects |-> <<>>]
  ELSE [raised |-> "",
        objects |-> [a \in Range(algos) |-> IF a = "crc32" THEN Word(0) ELSE ""]]

\* A variant whose crc does not go on from the crc of the chunks before.
UpdateAll_CrcRestarts(objects, chunk) ==
  [a \in DOMAIN objects |->
     IF a = "crc32" THEN zlib_crc32(chunk, Word(0)) ELSE objects[a] \o chunk]

\* for algo, hash_obj in hash_objects.items(): ... with one chunk
UpdateAll(objects, chunk) ==
  [a \in DOMAIN objects |->
     IF a = "crc32" THEN zlib_crc32(chunk, objects[a]) ELSE objects[a] \o chunk]

RECURSIVE UpdateAllWithChunks(_, _)
UpdateAllWithChunks(chunks, objects) ==
  IF chunks = <<>> THEN objects
  ELSE UpdateAllWithChunks(Tail(chunks), UpdateAll(objects, Head(chunks)))

HashResults(objects) ==
  [a \in DOMAIN objects |->
     IF a = "crc32" THEN Hex08(objects[a]) ELSE HexDigest(a, objects[a])]

calculate_multiple_hashes(f, algos, cs) ==
  LET b == BuildHashObjects(algos)
  IN  IF b.raised # "" THEN Out(b.raised, "-", NoHashes, "", 0, <<>>)
      ELSE LET r == OpenAndRead(f, cs)
           IN  Out("", "-",
                   IF r.ok THEN HashResults(UpdateAllWithChunks(r.chunks, b.objects))
                   ELSE NoHashes,
                   "", r.opens, r.reads)

\* Python's truth value of what calculate_hash returned.
Truthy(value) == value # "None" /\ value # ""

\* A variant that hashes the file once per algorithm.
RECURSIVE HashEach(_, _, _)
HashEach(f, algos, cs) ==
  IF algos = <<>> THEN Out("", "-", NoHashes, "", 0, <<>>)
  ELSE LET c == calculate_hash(f, Head(algos), cs)
           rest == HashEach(f, Tail(algos), cs)
       IN  IF c.raised # "" THEN c
           ELSE Out(rest.raised, "-",
                    IF c.value = "None" THEN rest.hashes
                    ELSE [a \in {Head(algos)} \cup DOMAIN rest.hashes |->
                            IF a = Head(algos) THEN c.value ELSE rest.hashes[a]],
                    "", c.opens + rest.opens, c.reads \o rest.reads)

hash_file_PerAlgorithm(f, algos, cs) ==
  IF f.kind # "file" THEN Out("", "-", NoHashes, "File not found", 0, <<>>)
  ELSE HashEach(f, algos, cs)

hash_file(f, algos, cs) ==
  IF f.kind # "file" THEN Out("", "-", NoHashes, "File not found", 0, <<>>)
  ELSE IF Len(algos) = 1
       THEN LET c == calculate_hash(f, algos[1], cs)
            IN  IF c.raised # "" THEN c
                ELSE Out("", "-",
                         IF Truthy(c.value) THEN [a \in {algos[1]} |-> c.value]
                         ELSE NoHashes,
                         "", c.opens, c.reads)
       ELSE calculate_multiple_hashes(f, algos, cs)

\* ------------------------------------------------- hashing one file
FinderUnused ==
  /\ fs = <<>>
  /\ fs0 = <<>>
  /\ dirs = {}
  /\ directories = <<>>
  /\ ignore_patterns = <<>>
  /\ file_hashes = <<>>
  /\ duplicates = <<>>
  /\ pc = "-"
  /\ interactive = FALSE
  /\ dry_run = FALSE
  /\ target = "-"
  /\ k = 0
  /\ removed_count = 0
  /\ space_freed = 0
  /\ moved_count = 0
  /\ events = <<>>
  /\ report = NoReport

HashInit ==
  /\ chunk_size \in ChunkSizes
  /\ hfile \in HFilesFor(chunk_size)
  /\ algorithms \in AlgorithmLists
  /\ hout = [op |-> "none"]
  /\ VerifyUnused
  /\ FinderUnused
  /\ CleanerUnused

Called(op, algorithm, out) ==
  [op |-> op, algorithm |-> algorithm, raised |-> out.raised, value |-> out.value,
   hashes |-> out.hashes, error |-> out.error, opens |-> out.opens,
   reads |-> out.reads]

\* hasher.calculate_hash(filepath, algorithm)
CalculateHash(algorithm) ==
  /\ hout' = Called("calculate_hash", algorithm,
                    calculate_hash(hfile, algorithm, chunk_size))
  /\ UNCHANGED <<hfile, chunk_size, algorithms>>
  /\ UNCHANGED verify_vars
  /\ UNCHANGED <<finder_vars, cleaner_vars>>

\* hasher.calculate_multiple_hashes(filepath, algorithms)
CalculateMultipleHashes ==
  /\ hout' = Called("calculate_multiple_hashes", "-",
                    calculate_multiple_hashes(hfile, algorithms, chunk_size))
  /\ UNCHANGED <<hfile, chunk_size, algorithms>>
  /\ UNCHANGED verify_vars
  /\ UNCHANGED <<finder_vars, cleaner_vars>>

\* hasher.hash_file(filepath, algorithms)
HashFile ==
  /\ hout' = Called("hash_file", "-", hash_file(hfile, algorithms, chunk_size))
  /\ UNCHANGED <<hfile, chunk_size, algorithms>>
  /\ UNCHANGED verify_vars
  /\ UNCHANGED <<finder_vars, cleaner_vars>>

HashNext ==
  \/ \E algorithm \in AlgorithmNames : CalculateHash(algorithm)
  \/ CalculateMultipleHashes
  \/ HashFile

HashSpec == HashInit /\ [][HashNext]_vars

\* ------------------------------------------------- properties of hashing
Readable(f) == f.kind = "file" /\ ~f.fail_open /\ f.fail_read = 0

AllSupported(algos) == \A a \in Range(algos) : IsSupported(a)

\* C14: for a readable file, whatever the content, the chunk size and the list
\* of supported algorithms (crc32 too), calculate_multiple_hashes returns for
\* each algorithm the digest calculate_hash returns for that algorithm alone.
C14_MultipleEqualsSingle ==
  (/\ hout.op = "calculate_multiple_hashes"
   /\ AllSupported(algorithms)
   /\ Readable(hfile))
    => /\ hout.raised = ""
       /\ DOMAIN hout.hashes = Range(algorithms)
       /\ \A a \in Range(algorithms) :
            hout.hashes[a] = calculate_hash(hfile, a, chunk_size).value

C14_Witness ==
  /\ hout.op = "calculate_multiple_hashes"
  /\ Readable(hfile)
  /\ ReadCalls(hfile.content, chunk_size) >= 3
  /\ Range(algorithms) = {"crc32", "md5"}
  /\ DOMAIN hout.hashes = {"crc32", "md5"}

\* The offsets of the read() calls that read every chunk of content once, and
\* then find the end of the file.
EachChunkOnce(content, cs) ==
  [i \in 1..ReadCalls(content, cs) |-> Min((i - 1) * cs, Len(content))]

\* C15: for a non-empty list of supported algorithms and a readable file,
\* hash_file opens the file once and reads each chunk once, however many
\* algorithms there are, and 'hashes' has one entry per algorithm asked for.
C15_OneOpenOnePass ==
  (/\ hout.op = "hash_file"
   /\ algorithms # <<>>
   /\ AllSupported(algorithms)
   /\ Readable(hfile))
    => /\ hout.raised = "" /\ hout.error = ""
       /\ hout.opens = 1
       /\ hout.reads = EachChunkOnce(hfile.content, chunk_size)
       /\ DOMAIN hout.hashes = Range(algorithms)

C15_Witness ==
  /\ hout.op = "hash_file"
  /\ Readable(hfile)
  /\ Len(algorithms) >= 2
  /\ Cardinality(Range(algorithms)) >= 2
  /\ AllSupported(algorithms)
  /\ Len(hout.reads) >= 3

\* C16: with an algorithm that is not supported, calculate_hash and
\* calculate_multiple_hashes raise the unsupported-algorithm error before the
\* file is opened or read, also when supported identifiers come first.
C16_UnsupportedBeforeOpen ==
  /\ (hout.op = "calculate_hash" /\ ~IsSupported(hout.algorithm))
       => /\ hout.raised = "Unsupported algorithm: " \o hout.algorithm
          /\ hout.opens = 0 /\ hout.reads = <<>>
  /\ (hout.op = "calculate_multiple_hashes" /\ ~AllSupported(algorithms))
       => /\ \E a \in Range(algorithms) :
               ~IsSupported(a) /\ hout.raised = "Unsupported algorithm: " \o a
          /\ hout.opens = 0 /\ hout.reads = <<>>
          /\ hout.hashes = NoHashes

C16_Witness ==
  /\ hout.op = "calculate_multiple_hashes"
  /\ Len(algorithms) >= 2
  /\ IsSupported(algorithms[1])
  /\ ~IsSupported(algorithms[Len(algorithms)])
  /\ Readable(hfile)
  /\ hout.raised # ""

\* C17: when open() fails, or a read() fails after any number of chunks, no
\* digest is returned: calculate_hash returns None, calculate_multiple_hashes
\* an empty dict, and the 'hashes' of hash_file is empty.
C17_NoDigestAfterIOError ==
  (/\ hout.op # "none"
   /\ ~Readable(hfile)
   /\ hout.raised = "")
    => /\ hout.hashes = NoHashes
       /\ hout.op = "calculate_hash" => hout.value = "None"

C17_Witness ==
  /\ hout.op = "calculate_multiple_hashes"
  /\ hfile.kind = "file"
  /\ hfile.fail_read >= 2
  /\ algorithms # <<>>
  /\ hout.raised = ""
  /\ Len(hout.reads) >= 2

\* =================================================== verify_hashes
MaxEntries == 2

\* Python's None, where a string is expected.
None == "None"

\* ------------------------------------------------------- the inputs
\* The states of the one file the manifest may name and find: absent, a
\* directory, a readable file of either content, a file open() fails on, a
\* file the first read() fails on.
DiskStates ==
  { [kind |-> "absent"], [kind |-> "dir"],
    HFile("ab", FALSE, 0), HFile("abc", FALSE, 0), HFile("ab", TRUE, 0),
    HFile("ab", FALSE, 1) }

Disks == [{"a.txt"} -> DiskStates]

ManifestPaths == {"a.txt", "missing.txt"}

\* The digests a manifest gives for an algorithm: the digest of "ab" in lower
\* and in upper case, another digest, null; sha3 is no supported algorithm.
ExpectedDigests(a) ==
  CASE a = "md5" -> {"187ef443", "187EF443", None}
    [] a = "crc32" -> {"9e83486d", "00000000"}
    [] a = "sha3" -> {"00"}

ExpectedAlgorithms == {"md5", "crc32", "sha3"}

AllExpectedDigests == UNION { ExpectedDigests(a) : a \in ExpectedAlgorithms }

\* The "hashes" objects of structured entries.
ExpectedDicts ==
  UNION { { h \in [S -> AllExpectedDigests] : \A a \in S : h[a] \in ExpectedDigests(a) } :
          S \in { X \in SUBSET ExpectedAlgorithms : Cardinality(X) <= MaxAlgorithms } }

\* A JSON value of the list: an object, or a string.
JsonDict(items) == [type |-> "dict", items |-> items]

JsonString(s) == [type |-> "str", items |-> [value |-> s]]

\* The entries under study: objects with the key filepath or path, with or
\* without hashes, and bare strings.
StructuredEntries ==
  { JsonDict([filepath |-> q, hashes |-> h]) : q \in ManifestPaths, h \in ExpectedDicts }
    \cup { JsonDict([path |-> q, hashes |-> [sha256 |-> "abc"]]) : q \in ManifestPaths }
    \cup { JsonDict([filepath |-> q]) : q \in ManifestPaths }
    \cup { JsonString(q) : q \in ManifestPaths }

\* The entries around them.
OtherEntries ==
  { JsonDict([filepath |-> "a.txt", hashes |-> [md5 |-> "187ef443"]]),
    JsonDict([filepath |-> "missing.txt", hashes |-> [md5 |-> "187ef443"]]) }

EntryLists ==
  { <<e>> \o rest : e \in StructuredEntries, rest \in SeqsUpTo(OtherEntries, MaxEntries - 1) }
    \cup { rest \o <<e>> : e \in StructuredEntries, rest \in SeqsUpTo(OtherEntries, MaxEntries - 1) }

ManifestLines ==
  { "187ef443  a.txt", "187EF443 *a.txt", "00000000  a.txt",
    "187ef443  missing.txt", "# comment", "", " onetoken " }

\* The content of the hash file: JSON (a list, or one object), or lines.
JsonManifest(top, entries) ==
  [format |-> "json", top |-> top, entries |-> entries, lines |-> <<>>]

SimpleManifest(lines) ==
  [format |-> "simple", top |-> "-", entries |-> <<>>, lines |-> lines]

\* The file "[]".
EmptyManifest == JsonManifest("list", <<>>)

Manifests ==
  { JsonManifest("list", es) : es \in EntryLists \cup {<<>>} }
    \cup { JsonManifest("dict", <<e>>) : e \in { x \in StructuredEntries : x.type = "dict" } }
    \cup { SimpleManifest(ls) : ls \in SeqsUpTo(ManifestLines, MaxEntries) \ {<<>>} }

\* ------------------------------------------------------- strings
RECURSIVE LStrip(_)
LStrip(s) ==
  IF s # "" /\ SubSeq(s, 1, 1) = " " THEN LStrip(SubSeq(s, 2, Len(s))) ELSE s

RECURSIVE RStrip(_)
RStrip(s) ==
  IF s # "" /\ SubSeq(s, Len(s), Len(s)) = " "
  THEN RStrip(SubSeq(s, 1, Len(s) - 1)) ELSE s

\* str.strip()
Strip(s) == RStrip(LStrip(s))

\* line.split(None, 1), line having no space at either end
Split1(line) ==
  LET spaces == { i \in 1..Len(line) : SubSeq(line, i, i) = " " }
      first == CHOOSE i \in spaces : \A j \in spaces : i <= j
  IN  IF spaces = {} THEN <<line>>
      ELSE <<SubSeq(line, 1, first - 1), LStrip(SubSeq(line, first + 1, Len(line)))>>

\* The line is a comment.
IsComment(line) == StartsWith(line, "#")

\* ------------------------------------------------------- the manifest
ParseLine(raw) ==
  LET line == Strip(raw)
      parts == Split1(line)
  IN  IF line = "" \/ IsComment(line) THEN <<>>
      ELSE IF Len(parts) = 2
           THEN << JsonDict([filepath |-> IF StartsWith(parts[2], "*")
                                          THEN SubSeq(parts[2], 2, Len(parts[2]))
                                          ELSE parts[2],
                             hash |-> parts[1]]) >>
           ELSE <<>>

RECURSIVE parse_simple_hash_file(_)
parse_simple_hash_file(lines) ==
  IF lines = <<>> THEN <<>>
  ELSE ParseLine(Head(lines)) \o parse_simple_hash_file(Tail(lines))

\* hash_data, as the list files_to_verify
FilesToVerify(m) ==
  IF m.format = "json" THEN m.entries ELSE parse_simple_hash_file(m.lines)

\* dict.get(key, default)
Get(d, key, default) == IF key \in DOMAIN d THEN d[key] ELSE default

\* The working directory.
Cwd == "/w"

\* os.path.abspath(filepath)
abspath(filepath) ==
  IF StartsWith(filepath, "/") THEN filepath ELSE Cwd \o "/" \o filepath

\* The file a path names: a path under the working directory names the file
\* its relative form names.
FileAt(d, filepath) ==
  LET q == IF StartsWith(filepath, Cwd \o "/")
           THEN SubSeq(filepath, Len(Cwd) + 2, Len(filepath))
           ELSE filepath
  IN  IF q \in DOMAIN d THEN d[q] ELSE [kind |-> "absent"]

\* ------------------------------------------------------- one entry
\* What the loop body does with one entry: the exception it raises ("" when
\* none), the bucket it appends to, the item appended, and the algorithms it
\* gave to hash_file (<<"-">> when hash_file was not called).
Entered(raised, bucket, item, hashed) ==
  [raised |-> raised, bucket |-> bucket, item |-> item, hashed |-> hashed]

HashMatch(expected_hash, current_hash) ==
  [expected |-> expected_hash, current |-> current_hash,
   matches |-> /\ Truthy(current_hash)
               /\ Lower(current_hash) = Lower(expected_hash)]

Compare(filepath, expected_hashes, current) ==
  LET hash_matches ==
        [a \in DOMAIN expected_hashes |->
           HashMatch(expected_hashes[a], Get(current.hashes, a, None))]
      overall_match == \A a \in DOMAIN hash_matches : hash_matches[a].matches
  IN  IF \E a \in DOMAIN expected_hashes :
           Truthy(Get(current.hashes, a, None)) /\ expected_hashes[a] = None
      THEN Entered("AttributeError", "-", [filepath |-> filepath],
                   SeqOfSet(DOMAIN expected_hashes))
      ELSE Entered("", IF overall_match THEN "verified" ELSE "failed",
                   [filepath |-> filepath, hash_matches |-> hash_matches,
                    overall_match |-> overall_match],
                   SeqOfSet(DOMAIN expected_hashes))

VerifyEntry(file_entry, d, cs) ==
  IF file_entry.type # "dict"
  THEN Entered("AttributeError", "-", [filepath |-> None], <<"-">>)
  ELSE LET filepath == Get(file_entry.items, "filepath", None)
           expected_hashes == Get(file_entry.items, "hashes", NoHashes)
       IN  IF filepath = None
           THEN Entered("TypeError", "-", [filepath |-> None], <<"-">>)
           ELSE IF FileAt(d, filepath).kind = "absent"
           THEN Entered("", "missing",
                        [filepath |-> filepath, reason |-> "File not found"], <<"-">>)
           ELSE LET algorithms_to_check == SeqOfSet(DOMAIN expected_hashes)
                    current == hash_file(FileAt(d, filepath), algorithms_to_check, cs)
                IN  IF current.raised # ""
                    THEN Entered(current.raised, "-", [filepath |-> filepath],
                                 algorithms_to_check)
                    ELSE IF current.error # ""
                    THEN Entered("", "errors",
                                 [filepath |-> filepath, error |-> current.error],
                                 algorithms_to_check)
                    ELSE Compare(filepath, expected_hashes, current)

\* ------------------------------------------------------- the run
\* The results: the four lists, and for each entry taken from the list, in
\* order, the bucket it went to ("-" when the entry raised) and the
\* algorithms given to hash_file for it.
Results(raised, verified, failed, missing, errors, buckets, hashed) ==
  [op |-> "verify_hashes", raised |-> raised, verified |-> verified,
   failed |-> failed, missing |-> missing, errors |-> errors,
   buckets |-> buckets, hashed |-> hashed]

\* A variant that reports a failed entry as an error too.
AppendTo_FailedIsErrorToo(r, e) ==
  Results(e.raised,
          IF e.bucket = "verified" THEN Append(r.verified, e.item) ELSE r.verified,
          IF e.bucket = "failed" THEN Append(r.failed, e.item) ELSE r.failed,
          IF e.bucket = "missing" THEN Append(r.missing, e.item) ELSE r.missing,
          IF e.bucket \in {"errors", "failed"} THEN Append(r.errors, e.item)
          ELSE r.errors,
          Append(r.buckets, e.bucket), Append(r.hashed, e.hashed))

AppendTo(r, e) ==
  Results(e.raised,
          IF e.bucket = "verified" THEN Append(r.verified, e.item) ELSE r.verified,
          IF e.bucket = "failed" THEN Append(r.failed, e.item) ELSE r.failed,
          IF e.bucket = "missing" THEN Append(r.missing, e.item) ELSE r.missing,
          IF e.bucket = "errors" THEN Append(r.errors, e.item) ELSE r.errors,
          Append(r.buckets, e.bucket), Append(r.hashed, e.hashed))

RECURSIVE VerifyEntries(_, _, _, _)
VerifyEntries(r, entries, d, cs) ==
  IF entries = <<>> \/ r.raised # "" THEN r
  ELSE VerifyEntries(AppendTo(r, VerifyEntry(Head(entries), d, cs)),
                     Tail(entries), d, cs)

verify_hashes(m, d, cs) ==
  VerifyEntries(Results("", <<>>, <<>>, <<>>, <<>>, <<>>, <<>>),
                FilesToVerify(m), d, cs)

\* ------------------------------------------------------- save_hashes
\* The results of hash_file(filepath, algos) for n files like filepath, those
\* with an 'error' left out (hash_directory, main).
HashResultsFor(d, filepath, algos, n, cs) ==
  LET r == hash_file(FileAt(d, filepath), algos, cs)
  IN  IF r.error # "" THEN <<>>
      ELSE [i \in 1..n |-> [filepath |-> abspath(filepath), filename |-> filepath,
                            hashes |-> r.hashes]]

\* A variant that writes the path under the key 'path'.
SavedEntry_KeyPath(result) ==
  JsonDict([path |-> result.filepath, filename |-> result.filename,
            hashes |-> result.hashes])

\* json.dump of one result, read again by json.loads
SavedEntry(result) ==
  JsonDict([filepath |-> result.filepath, filename |-> result.filename,
            hashes |-> result.hashes])

\* save_hashes(hash_results, output_file, 'json'): the content of output_file
save_hashes(hash_results) ==
  JsonManifest("list", [i \in DOMAIN hash_results |-> SavedEntry(hash_results[i])])

\* The lists of supported algorithms a caller asks hash_file for.
SupportedLists ==
  { as \in AlgorithmLists : as # <<>> /\ \A i \in DOMAIN as : IsSupported(as[i]) }

VerifyInit ==
  /\ manifest \in Manifests
  /\ disk \in Disks
  /\ default_algorithm \in {"md5", "crc32"}
  /\ chunk_size = 2
  /\ vout = [op |-> "none"]
  /\ hfile = [kind |-> "absent"]
  /\ algorithms = <<>>
  /\ hout = [op |-> "none"]
  /\ FinderUnused
  /\ CleanerUnused

\* hasher.verify_hashes(hash_file, algorithm): the manifest is parsed and
\* verification_results is empty.
VerifyStart ==
  /\ vout.op = "none"
  /\ vout' = Results("", <<>>, <<>>, <<>>, <<>>, <<>>, <<>>)
  /\ UNCHANGED <<disk, manifest, default_algorithm>>
  /\ UNCHANGED <<hfile, chunk_size, algorithms, hout>>
  /\ UNCHANGED <<finder_vars, cleaner_vars>>

\* One iteration of "for file_entry in files_to_verify"; after an exception
\* there is no other.
VerifyStep ==
  /\ vout.op = "verify_hashes"
  /\ vout.raised = ""
  /\ Len(vout.buckets) < Len(FilesToVerify(manifest))
  /\ vout' = AppendTo(vout, VerifyEntry(FilesToVerify(manifest)[Len(vout.buckets) + 1],
                                        disk, chunk_size))
  /\ UNCHANGED <<disk, manifest, default_algorithm>>
  /\ UNCHANGED <<hfile, chunk_size, algorithms, hout>>
  /\ UNCHANGED <<finder_vars, cleaner_vars>>

\* hash_directory / hash_file, then save_hashes(results, output_file, 'json')
\* into a hash file that was empty.
HashAndSave(algos, n) ==
  /\ vout.op = "none"
  /\ hout.op = "none"
  /\ manifest = EmptyManifest
  /\ \E results \in {HashResultsFor(disk, "a.txt", algos, n, chunk_size)} :
       /\ hout' = [op |-> "save_hashes", results |-> results]
       /\ manifest' = save_hashes(results)
  /\ UNCHANGED <<disk, default_algorithm, vout>>
  /\ UNCHANGED <<hfile, chunk_size, algorithms>>
  /\ UNCHANGED <<finder_vars, cleaner_vars>>

VerifyNext ==
  \/ VerifyStart
  \/ VerifyStep
  \/ \E algos \in SupportedLists, n \in 1..MaxEntries : HashAndSave(algos, n)

VerifySpec == VerifyInit /\ [][VerifyNext]_vars

\* ------------------------------------------------- properties of verifying
\* The entries of the manifest, as the loop takes them.
Entries == FilesToVerify(manifest)

\* The entries the loop has taken.
Taken == { i \in DOMAIN Entries : i <= Len(vout.buckets) }

\* The path an entry names.
EntryPath(e) ==
  IF e.type = "str" THEN e.items.value
  ELSE IF "filepath" \in DOMAIN e.items THEN e.items.filepath
  ELSE e.items.path

\* The item appended for the entry i.
ItemOf(i) ==
  LET n == Cardinality({ j \in 1..i : vout.buckets[j] = vout.buckets[i] })
  IN  vout[vout.buckets[i]][n]

IsReadableFile(f) == f.kind = "file" /\ ~f.fail_open /\ f.fail_read = 0

\* verify_hashes has returned, or has raised.
Returned ==
  vout.op = "verify_hashes" /\ vout.raised = "" /\ Len(vout.buckets) = Len(Entries)

Ended == Returned \/ (vout.op = "verify_hashes" /\ vout.raised # "")

\* C18: an entry whose file does not exist is classified missing, never failed
\* or verified, whatever the form of the entry (the entry
\* {"path": "missing.txt", "hashes": {"sha256": ...}} too).
C18_AbsentFileIsMissing ==
  vout.op = "verify_hashes" =>
    \A i \in Taken :
      FileAt(disk, EntryPath(Entries[i])).kind = "absent"
        => vout.buckets[i] = "missing"

\* The digest of the file of entry e for the algorithm a is the expected one,
\* the case of the letters aside.
DigestMatches(e, a, expected) ==
  /\ IsSupported(a)
  /\ expected # None
  /\ Lower(calculate_hash(FileAt(disk, EntryPath(e)), a, chunk_size).value)
       = Lower(expected)

IsStructured(e) ==
  e.type = "dict" /\ {"filepath", "hashes"} \subseteq DOMAIN e.items

\* C19: for a structured entry whose file exists and can be read, verify_hashes
\* recomputes exactly the algorithms the entry names, and classifies the entry
\* verified iff the digest of every algorithm is the expected one, the case
\* aside, else failed, with the expected and the current digest of every
\* algorithm that does not match.
C19_VerifiedIffAllMatch ==
  (vout.op = "verify_hashes" /\ manifest.format = "json") =>
    \A i \in Taken :
      LET e == Entries[i] IN
      (IsStructured(e) /\ IsReadableFile(FileAt(disk, EntryPath(e)))) =>
        LET expected == e.items.hashes IN
        /\ Range(vout.hashed[i]) = DOMAIN expected
        /\ Len(vout.hashed[i]) = Cardinality(DOMAIN expected)
        /\ IF \A a \in DOMAIN expected : DigestMatches(e, a, expected[a])
           THEN vout.buckets[i] = "verified"
           ELSE /\ vout.buckets[i] = "failed"
                /\ \A a \in DOMAIN expected :
                     ~DigestMatches(e, a, expected[a]) =>
                       /\ ItemOf(i).hash_matches[a].expected = expected[a]
                       /\ IsSupported(a) =>
                            ItemOf(i).hash_matches[a].current =
                              calculate_hash(FileAt(disk, EntryPath(e)), a, chunk_size).value
                       /\ ~ItemOf(i).hash_matches[a].matches

\* The lines of the manifest that are neither blank nor a comment.
EntryLines ==
  { i \in DOMAIN manifest.lines :
      Strip(manifest.lines[i]) # "" /\ ~IsComment(Strip(manifest.lines[i])) }

\* C20: for a manifest of lines, every line that is neither a comment nor
\* blank gives one entry, and an entry whose file exists and can be read is
\* hashed with the algorithm of the caller: verified when the digest is the
\* one of the line, failed when it is not.
C20_LinesVerifiedWithAlgorithm ==
  (vout.op = "verify_hashes" /\ manifest.format = "simple") =>
    /\ Returned => Len(vout.buckets) = Cardinality(EntryLines)
    /\ \A i \in Taken :
         LET e == Entries[i] IN
         IsReadableFile(FileAt(disk, EntryPath(e))) =>
           /\ vout.hashed[i] = <<default_algorithm>>
           /\ IF DigestMatches(e, default_algorithm, e.items.hash)
              THEN vout.buckets[i] = "verified"
              ELSE vout.buckets[i] = "failed"

\* Re-hashing the file of entry e is tried, and fails with an I/O error.
RehashFails(e) ==
  /\ IsStructured(e)
  /\ e.items.hashes # NoHashes
  /\ \A a \in DOMAIN e.items.hashes : IsSupported(a) /\ e.items.hashes[a] # None
  /\ FileAt(disk, EntryPath(e)).kind = "file"
  /\ ~IsReadableFile(FileAt(disk, EntryPath(e)))

\* C21: an entry whose existing file cannot be opened or read when it is
\* hashed again is classified as error, with the description of the failure,
\* not as failed, verified or missing.
C21_IOErrorIsError ==
  vout.op = "verify_hashes" =>
    \A i \in Taken :
      RehashFails(Entries[i]) =>
        /\ vout.buckets[i] = "errors"
        /\ ItemOf(i).error # ""

BucketNames == {"verified", "failed", "missing", "errors"}

BucketSizes ==
  Len(vout.verified) + Len(vout.failed) + Len(vout.missing) + Len(vout.errors)

\* One item more in the bucket b, the other buckets as they were.
OneMoreIn(b) ==
  /\ Len(vout'[b]) = Len(vout[b]) + 1
  /\ SubSeq(vout'[b], 1, Len(vout[b])) = vout[b]
  /\ \A c \in BucketNames \ {b} : vout'[c] = vout[c]

\* C22: every entry of the manifest goes to exactly one of the buckets
\* verified, failed, missing, errors: an iteration that raises nothing adds one
\* item to one bucket, and when verify_hashes returns after n entries the sizes
\* of the four buckets sum to n.
C22_ExactlyOneBucket ==
  /\ [](vout.op = "verify_hashes" =>
          /\ BucketSizes <= Len(Entries)
          /\ Returned => BucketSizes = Len(Entries))
  /\ [][ vout.op = "verify_hashes" =>
           IF vout'.raised = "" THEN \E b \in BucketNames : OneMoreIn(b)
           ELSE \A c \in BucketNames : vout'[c] = vout[c] ]_vars

C22_Witness ==
  /\ Returned
  /\ Len(Entries) = 2
  /\ Len(vout.failed) = 1
  /\ Len(vout.missing) = 1

\* C23: whatever an entry of a parsed manifest holds (an algorithm that is
\* not supported, no path, a directory, a file that cannot be read),
\* verify_hashes raises nothing and goes on with the entries that remain.
C23_NoEntryAborts ==
  vout.op = "verify_hashes" => vout.raised = ""

\* The expected digests of an entry that is an object.
ExpectedOf(e) == Get(e.items, "hashes", NoHashes)

\* C28: an entry is verified only if a digest of its file was recomputed and
\* found equal to an expected digest; an entry with no expected digests
\* ('hashes' empty or absent) is never verified.
C28_VerifiedNeedsADigest ==
  vout.op = "verify_hashes" =>
    \A i \in Taken :
      vout.buckets[i] = "verified" =>
        /\ ExpectedOf(Entries[i]) # NoHashes
        /\ vout.hashed[i] # <<>>
        /\ \E a \in DOMAIN ExpectedOf(Entries[i]) :
             DigestMatches(Entries[i], a, ExpectedOf(Entries[i])[a])

\* C24: when the results of hash_file / hash_directory are saved by
\* save_hashes in the json format and the files are as they were,
\* verify_hashes on the saved file classifies every entry as verified and none
\* as failed, missing or error.
C24_SavedThenVerified ==
  (hout.op = "save_hashes" /\ vout.op = "verify_hashes") =>
    /\ vout.raised = ""
    /\ \A i \in Taken : vout.buckets[i] = "verified"
    /\ Len(vout.failed) + Len(vout.missing) + Len(vout.errors) = 0
    /\ Returned => Len(vout.verified) = Len(hout.results)

C24_Witness ==
  /\ hout.op = "save_hashes"
  /\ Returned
  /\ Len(vout.verified) = 2
  /\ \E i \in Taken : Cardinality(DOMAIN vout.verified[i].hash_matches) = 2

\* =================================================== duplicate_finder.py, again
\* The file p fails in the scan: stat() raises, or it cannot be opened or read.
FailsInScan(p) == UnderSomeRoot(p) /\ fs0[p].perm # "ok"

InSomeGroup(p) ==
  \E g \in DOMAIN duplicates : \E i \in DOMAIN duplicates[g].files :
    duplicates[g].files[i].path = p

\* C25: a file that fails during scan_directories is skipped alone: every
\* other non-empty, non-ignored, readable file under a root is recorded, and
\* the failing file is in no record and in no group.
C25_FailureSkipsOneFile ==
  pc # "start" =>
    \A p \in DOMAIN fs0 :
      /\ Eligible(p) => RecordsOf(file_hashes, p) # {}
      /\ FailsInScan(p) => RecordsOf(file_hashes, p) = {} /\ ~InSomeGroup(p)

C25_Witness ==
  /\ pc = "found"
  /\ \E p \in DOMAIN fs0 : FailsInScan(p) /\ fs0[p].perm = "nostat"
  /\ \E p \in DOMAIN fs0 : FailsInScan(p) /\ fs0[p].perm = "noread"
  /\ \E p \in DOMAIN fs0 : Eligible(p) /\ InSomeGroup(p)

\* The prompts of the running remove_duplicates, one event per prompt.
Prompting == pc \in {"remove", "removed"} /\ interactive /\ ~dry_run

\* C26: in an interactive remove_duplicates that is no dry run the prompts
\* come one at a time in group order and, within a group, in member order;
\* no file is prompted for twice and the file kept as an original is never
\* prompted for; a file is deleted only by the answer y to its own prompt,
\* and an answer that is neither y nor q skips the file.
C26_PromptsInOrderOncePerFile ==
  Prompting =>
    /\ \A i \in DOMAIN events :
         /\ events[i].pos = i
         /\ events[i].path = Member(duplicates, Candidates(duplicates)[i]).path
         /\ events[i].response \in {"y", "n", "q"}
         /\ events[i].outcome = "deleted" => events[i].response = "y"
         /\ events[i].response \notin {"y", "q"} => events[i].outcome = "skipped"
    /\ \A i, j \in DOMAIN events : i # j => events[i].path # events[j].path
    /\ \A i \in DOMAIN events : \A g \in DOMAIN duplicates :
         events[i].path # Original(g).path
    /\ (DOMAIN fs0) \ (DOMAIN fs) =
         { events[i].path : i \in { j \in EventsWith({"deleted"}) : events[j].response = "y" } }

\* '<stem>_<n><suffix>'
Numbered(name, n) == Stem(name) \o "_" \o ToString(n) \o Suffix(name)

Free(files, t, name) == [dir |-> t, name |-> name] \notin DOMAIN files

\* The name is the one the search has to end on, given the files in place.
FirstFreeName(files, t, name, chosen) ==
  IF Free(files, t, name) THEN chosen = name
  ELSE \E n \in 1..(Cardinality(DOMAIN files) + 1) :
         /\ chosen = Numbered(name, n)
         /\ Free(files, t, chosen)
         /\ \A j \in 1..(n - 1) : ~Free(files, t, Numbered(name, j))

\* C27: for every candidate of move_duplicates_to_folder the search for a
\* destination name ends: on the candidate's own name if no file of the target
\* has it, otherwise on '<stem>_<n><suffix>' for the smallest n >= 1 that no
\* file of the target has, n being at most the number of files plus one; every
\* candidate gets a destination, none is given up for want of a name.
C27_NameSearchEndsOnFirstFree ==
  [][ (pc = "move" /\ Len(events') = Len(events) + 1) =>
        /\ events'[Len(events')].path =
             Member(duplicates, Candidates(duplicates)[k]).path
        /\ events'[Len(events')].dst.dir = target
        /\ FirstFreeName(fs, target, events'[Len(events')].path.name,
                         events'[Len(events')].dst.name)
        /\ events'[Len(events')].outcome \in {"moved", "would move", "missing", "denied"}
    ]_vars

C27_Witness ==
  /\ pc = "moved" /\ ~dry_run /\ Completed
  /\ \E i, j \in EventsWith({"moved"}) :
       /\ events[i].dst.name = "dup_1.txt"
       /\ events[j].dst.name = "dup_2.txt"
       /\ Exists(fs, [dir |-> target, name |-> "dup.txt"])

\* The source -> destination pairs move_duplicates_to_folder performs from the
\* files given when it is no dry run and no move fails: each name is chosen
\* with the earlier moves done.
RECURSIVE PerformedMoves(_, _, _, _)
PerformedMoves(files, dups, t, pos) ==
  IF pos > Len(Candidates(dups)) THEN <<>>
  ELSE LET m   == Member(dups, Candidates(dups)[pos])
           dst == [dir |-> t, name |-> UniqueName(files, t, m.path.name)]
       IN  <<[path |-> m.path, dst |-> dst]>>
             \o PerformedMoves(MoveFile(files, m.path, dst), dups, t, pos + 1)

NoPathTwice == \A p \in DOMAIN fs0 : Cardinality(RecordsOf(duplicates, p)) <= 1

\* C29: a dry run of move_duplicates_to_folder reports, candidate by
\* candidate, the source and the destination the real run from the same files
\* and the same groups performs, and it reports no destination twice (stated
\* for runs in which every file is recorded once).
C29_DryRunReportsRealMoves ==
  (pc \in {"move", "moved"} /\ dry_run /\ NoPathTwice) =>
    /\ \A i \in DOMAIN events :
         /\ events[i].path = PerformedMoves(fs0, duplicates, target, 1)[i].path
         /\ events[i].dst = PerformedMoves(fs0, duplicates, target, 1)[i].dst
    /\ \A i, j \in DOMAIN events : i # j => events[i].dst # events[j].dst

\* ===================================================== empty_folder_cleaner.py
\* The directories there may be at and under root_dir, "r".
TreeDirs == {"r", "r/x", "r/x/y", "r/z", "r/w"}

ParentDir(d) ==
  CASE d = "r/x/y" -> "r/x"
    [] OTHER      -> "r"

\* The names os.scandir(d) lists as directories.
Subdirs(ds, d) == { c \in ds : c # "r" /\ ParentDir(c) = d }

\* os.walk(root_dir, topdown=False): the triple of a directory comes after
\* the triples of its subdirectories, and its dirnames and filenames are
\* listed before the walk goes down into it.
RECURSIVE WalkBottomUp(_, _, _)
WalkBottomUp(ds, holding, d) ==
  LET subs == SeqOfSet(Subdirs(ds, d))
  IN  Concat([i \in DOMAIN subs |-> WalkBottomUp(ds, holding, subs[i])])
        \o <<[dirpath |-> d, dirnames |-> Subdirs(ds, d),
              filenames |-> IF d \in holding THEN {"f"} ELSE {}]>>

CleanInit ==
  /\ tree \in { ds \in SUBSET TreeDirs :
                  "r" \in ds /\ \A d \in ds : ParentDir(d) \in ds }
  /\ tree0 = tree
  /\ with_files \in SUBSET tree
  /\ walk = <<>>
  /\ deleted_count = 0
  /\ rmdir_errors = 0
  /\ cleaner = [at |-> "called"]
  /\ FinderUnused
  /\ FileHasherUnused

\* delete_empty_dirs(root_dir): deleted_count = 0 and the walk begins.
CleanStart ==
  /\ cleaner.at = "called"
  /\ walk' = WalkBottomUp(tree, with_files, "r")
  /\ deleted_count' = 0
  /\ cleaner' = [at |-> "walking"]
  /\ UNCHANGED <<tree, tree0, with_files, rmdir_errors>>
  /\ UNCHANGED <<finder_vars, file_hasher_vars>>

\* One triple of the for loop; os.rmdir succeeds or raises OSError.
CleanVisit(os_ok) ==
  /\ cleaner.at = "walking"
  /\ walk # <<>>
  /\ os_ok \/ rmdir_errors < MaxOSErrors
  /\ walk' = Tail(walk)
  /\ IF Head(walk).dirnames = {} /\ Head(walk).filenames = {}
     THEN IF os_ok
          THEN /\ tree' = tree \ {Head(walk).dirpath}
               /\ deleted_count' = deleted_count + 1
               /\ rmdir_errors' = rmdir_errors
          ELSE /\ rmdir_errors' = rmdir_errors + 1
               /\ UNCHANGED <<tree, deleted_count>>
     ELSE /\ os_ok
          /\ UNCHANGED <<tree, deleted_count, rmdir_errors>>
  /\ UNCHANGED <<tree0, with_files, cleaner>>
  /\ UNCHANGED <<finder_vars, file_hasher_vars>>

\* The walk is over: the last line printed, and the return.
CleanReturn ==
  /\ cleaner.at = "walking"
  /\ walk = <<>>
  /\ cleaner' = [at |-> "returned",
                 line |-> IF deleted_count = 0 THEN "No empty directories found."
                          ELSE "Total empty directories deleted"]
  /\ UNCHANGED <<tree, tree0, with_files, walk, deleted_count, rmdir_errors>>
  /\ UNCHANGED <<finder_vars, file_hasher_vars>>

CleanNext ==
  \/ CleanStart
  \/ \E os_ok \in BOOLEAN : CleanVisit(os_ok)
  \/ CleanReturn

CleanSpec == CleanInit /\ [][CleanNext]_vars

\* ---------------------------------------------------------------- properties
\* c is d or a directory under d.
AtOrUnder(c, d) == d \in {c, ParentDir(c), ParentDir(ParentDir(c))}

IsEmptyDir(d) == Subdirs(tree, d) = {} /\ d \notin with_files

HoldsFileBelow(d) == \E c \in with_files : AtOrUnder(c, d)

\* C30: when delete_empty_dirs has returned and no os.rmdir raised, no empty
\* directory is left at or under root_dir, a directory emptied by the deletion
\* of its subdirectories included, and no directory that holds a file,
\* itself or below, is deleted.
C30_NoEmptyDirectoryLeft ==
  (cleaner.at = "returned" /\ rmdir_errors = 0) =>
    /\ \A d \in tree : ~IsEmptyDir(d)
    /\ \A d \in tree0 \ tree : ~HoldsFileBelow(d)
====
